---- MODULE Spec2Model ----
(***************************************************************************)
(* FilamentScene (src/src/FilamentScene.web.tsx): a React function         *)
(* component that acquires ten resource handles through hooks, memoizes a  *)
(* context value from them and renders either the fallback or the provider *)
(* tree.                                                                   *)
(*                                                                         *)
(* The component function is modelled as the action Render (one call of    *)
(* the function body, lines 55-147) followed by CommitEffects (React       *)
(* commits the output, attaches the ref and runs the effects whose         *)
(* dependency lists changed).  Hook state lives in res; what the last call *)
(* of the function read from it lives in rr.                               *)
(***************************************************************************)
EXTENDS Integers, FiniteSets, Sequences, TLC

\* ---------------------------------------------------------------- bounds
\* Number of distinct engine identities the upstream hook may hand out.
MaxGen == 2
\* Number of acquisitions that may resolve without a handle in one run.
MaxFailures == 1
\* Number of times the caller changes frameRateOptions in one run.
MaxPropChanges == 1
\* Number of re-renders the parent forces without changing any prop.
MaxRerenders == 1

\* ------------------------------------------------------------- vocabulary
Derived ==
    {"transformManager", "renderableManager", "scene", "lightManager",
     "view", "camera", "renderer", "nameComponentManager"}

Dependents == Derived \cup {"choreographer"}

Resources == Dependents \cup {"engine"}

Gens == 1..MaxGen

\* The choreographer is created from FilamentProxy, not from an engine: its
\* single acquisition is keyed by the first key.
ChoreographerKey == 1

FrameRates == {"fr30", "fr60"}

\* The frame-rate option the caller mounts the component with.
InitialFrameRate == "fr30"

Fallbacks == {"none", "fallbackElement"}

NoCanvas == "null"

Canvas == "canvasElement"

AllUnset == [r \in Resources |-> 0]

\* useMemo's result when the gate is closed (line 105): undefined.
Undefined == [id |-> 0, handles |-> AllUnset]

VARIABLES
    mounted,          \* the component instance is mounted
    pc,               \* "render": a call of the function is scheduled;
                      \* "effects": its output is being committed; "idle"
    props,            \* the props the caller currently supplies
    res,              \* hook state: handle per resource, 0 = undefined
    rr,               \* the handles the last call of the function read
    pending,          \* acquisitions in flight, per resource, by key
    failed,           \* resources whose current acquisition gave no handle
    failures,         \* number of acquisitions that gave no handle
    released,         \* release() calls per handle
    nextGen,          \* next engine identity
    effectsRun,       \* the effects have been mounted
    effDeps,          \* dependency list each effect was last run with
    current,          \* key of the acquisition each effect last issued
    committedEngine,  \* the engine the last committed call read
    canvasRef,        \* canvasRef.current
    engineCanvasArg,  \* the canvas the last call handed to useEngine
    rendered,         \* the function has been called at least once
    value,            \* the memoized context value
    rendererProps,    \* the memoized rendererProps object
    viewProps,        \* the rest object of the last call
    output,           \* the elements returned by the last call
    nextId,           \* identity of the objects the next call allocates
    propChanges,      \* number of frameRateOptions changes so far
    rerenders         \* number of forced re-renders so far

vars ==
    <<mounted, pc, props, res, rr, pending, failed, failures,
      released, nextGen, effectsRun, effDeps, current, committedEngine,
      canvasRef, engineCanvasArg, rendered, value, rendererProps, viewProps, output,
      nextId, propChanges, rerenders>>

\* ------------------------------------------------- the function body

\* The gate with the check of transformManager left out.
Gate_SkipsTransformManager(h) ==
    /\ h["renderableManager"] # 0
    /\ h["scene"] # 0
    /\ h["lightManager"] # 0
    /\ h["view"] # 0
    /\ h["camera"] # 0
    /\ h["renderer"] # 0
    /\ h["nameComponentManager"] # 0
    /\ h["choreographer"] # 0
    /\ h["engine"] # 0

\* The gate with the check of the choreographer left out.
Gate_SkipsChoreographer(h) ==
    /\ h["transformManager"] # 0
    /\ h["renderableManager"] # 0
    /\ h["scene"] # 0
    /\ h["lightManager"] # 0
    /\ h["view"] # 0
    /\ h["camera"] # 0
    /\ h["renderer"] # 0
    /\ h["nameComponentManager"] # 0
    /\ h["engine"] # 0

\* Lines 93-106: the context is built only if none of the ten is null.
Gate(h) ==
    /\ h["transformManager"] # 0
    /\ h["renderableManager"] # 0
    /\ h["scene"] # 0
    /\ h["lightManager"] # 0
    /\ h["view"] # 0
    /\ h["camera"] # 0
    /\ h["renderer"] # 0
    /\ h["nameComponentManager"] # 0
    /\ h["choreographer"] # 0
    /\ h["engine"] # 0

\* Lines 121-132: the dependency list of the context value's useMemo.
ValueDeps(h) ==
    <<h["transformManager"], h["renderableManager"], h["scene"],
      h["lightManager"], h["view"], h["camera"], h["renderer"],
      h["nameComponentManager"], h["choreographer"], h["engine"]>>

\* The context value built anew on every call, without useMemo.
ValueMemo_NoMemo(first, old, prev, h, id) ==
    IF Gate(h) THEN [id |-> id, handles |-> h] ELSE Undefined

\* Lines 92-132: useMemo recomputes when a dependency changed (always on the
\* first call); a new object is returned only when the gate is open.
ValueMemo(first, old, prev, h, id) ==
    IF ~first /\ ValueDeps(h) = ValueDeps(prev)
    THEN old
    ELSE IF Gate(h) THEN [id |-> id, handles |-> h] ELSE Undefined

\* Line 134: the dependency list of rendererProps' useMemo.
RendererPropsDeps(p) == <<p.frameRateOptions>>

\* Line 134: useMemo(() => ({ frameRateOptions }), [frameRateOptions]).
RendererPropsMemo(first, old, p, id) ==
    IF ~first /\ RendererPropsDeps(p) = RendererPropsDeps(old)
    THEN old
    ELSE [id |-> id, frameRateOptions |-> p.frameRateOptions]

\* Line 55: { children, ...viewProps } builds a new rest object on every
\* call.  Object identity is named relative to the last commit: the object
\* the committed output holds is object 0, and an object built during the
\* call in progress gets the next name.
ViewPropsRest(old, p) ==
    [obj |-> old.obj + 1,
     frameRateOptions |-> p.frameRateOptions,
     fallback |-> p.fallback]

\* Once the output is committed, the object it holds is the committed one.
Committed(o) == [o EXCEPT !.obj = 0]

ProviderTree ==
    {"FilamentContext.Provider", "Configurator", "RenderContextProvider",
     "canvas", "children"}

\* The children rendered beside the fallback while the gate is closed.
RenderOutput_ChildrenWhileClosed(v, fb) ==
    IF v = Undefined
    THEN (IF fb # "none" THEN {"fallback"} ELSE {}) \cup {"children"}
    ELSE ProviderTree

\* Lines 137-147: the returned elements.
RenderOutput(v, fb) ==
    IF v = Undefined
    THEN IF fb # "none" THEN {"fallback"} ELSE {}
    ELSE ProviderTree

\* Line 59: the canvas handed to useEngine is canvasRef.current as read
\* during the call.
EngineCanvas(ref) == ref


\* ------------------------------------------------- the resource hooks

\* Lines 62-81: the order in which the function calls the eight
\* engine-scoped hooks.
Rank(r) ==
    CASE r = "transformManager" -> 1
      [] r = "renderableManager" -> 2
      [] r = "scene" -> 3
      [] r = "lightManager" -> 4
      [] r = "view" -> 5
      [] r = "camera" -> 6
      [] r = "renderer" -> 7
      [] r = "nameComponentManager" -> 8
      [] OTHER -> 9

\* The eight engine-scoped acquisitions with the engine left out of their
\* dependency lists.
DepsOf_WithoutEngine(r, h) == <<>>

\* Lines 64-80 and 84-89: the dependency list each acquisition is scoped
\* by: [engine] for the eight engine-created handles, none for the
\* choreographer.
DepsOf(r, h) == IF r \in Derived THEN <<h["engine"]>> ELSE <<>>

\* Lines 63-79: Promise.resolve(engine?.createX()) yields undefined while
\* the engine is undefined, and otherwise a handle created from that engine.
\* Lines 85-88: the worklet creates the choreographer from FilamentProxy.
InitKey(r, h) == IF r \in Derived THEN h["engine"] ELSE ChoreographerKey

\* Lines 63-79: each of the eight initializers returns an already resolved
\* promise, so their results are delivered in the order the acquisitions
\* were issued: by engine, then by hook order.  The choreographer's worklet
\* (lines 85-88) resolves whenever its context gets to it.
Due(r, k) ==
    r \in Derived =>
        \A r2 \in Derived : \A k2 \in pending[r2] :
            k2 > k \/ (k2 = k /\ Rank(r2) >= Rank(r))

\* useDisposableResource: the effect instance that issued acquisition k of r
\* is still the current one: the component is mounted and the effect has not
\* been cleaned up since.
Valid(r, k) == mounted /\ current[r] = k

\* useDisposableResource: tearing an acquisition down releases the handle it
\* had stored.
ReleaseOnCleanup(rel, r, h) ==
    IF h[r] # 0 THEN [rel EXCEPT ![r][h[r]] = @ + 1] ELSE rel

\* useDisposableResource: a result that arrives after its acquisition was
\* torn down is not stored; the handle is released instead.
ReleaseLate(rel, r, k) == [rel EXCEPT ![r][k] = @ + 1]

\* A result stored whether or not its acquisition is still the current one.
StoreResult_Late(h, r, k) == [h EXCEPT ![r] = k]

\* useDisposableResource: a result is stored only while its acquisition is
\* still the current one.
StoreResult(h, r, k) == IF Valid(r, k) THEN [h EXCEPT ![r] = k] ELSE h

RECURSIVE CleanupAll(_, _, _)
\* The cleanups of the effects in S, one after the other.
CleanupAll(rel, S, h) ==
    IF S = {} THEN rel
    ELSE LET r == CHOOSE x \in S : TRUE
         IN  CleanupAll(ReleaseOnCleanup(rel, r, h), S \ {r}, h)

\* ---------------------------------------------------------------- Init
Init ==
    /\ mounted = TRUE
    /\ pc = "render"
    /\ props \in [frameRateOptions : {InitialFrameRate}, fallback : Fallbacks]
    /\ res = AllUnset
    /\ rr = AllUnset
    /\ pending = [r \in Resources |-> {}]
    /\ failed = {}
    /\ failures = 0
    /\ released = [r \in Resources |-> [k \in Gens |-> 0]]
    /\ nextGen = 1
    /\ effectsRun = FALSE
    /\ effDeps = [r \in Dependents |-> <<>>]
    /\ current = [r \in Dependents |-> 0]
    /\ committedEngine = 0
    /\ canvasRef = NoCanvas
    /\ engineCanvasArg = NoCanvas
    /\ rendered = FALSE
    /\ value = Undefined
    /\ rendererProps = [id |-> 0, frameRateOptions |-> InitialFrameRate]
    /\ viewProps = [obj |-> 0, frameRateOptions |-> InitialFrameRate,
                    fallback |-> "none"]
    /\ output = {}
    /\ nextId = 1
    /\ propChanges = 0
    /\ rerenders = 0

\* -------------------------------------------------------------- actions

\* React commits the output of a call and runs its effects before any other
\* callback of the page runs: results, engine changes and prop changes
\* arrive between a commit and the next call.
Between == pc # "effects"

\* A state update schedules a call of the function unless one is already
\* scheduled.
Schedule(p) == IF p = "idle" THEN "render" ELSE p

\* One call of FilamentScene (lines 55-147).
Render ==
    /\ mounted
    /\ pc = "render"
    /\ LET v  == ValueMemo(~rendered, value, rr, res, nextId)
           rp == RendererPropsMemo(~rendered, rendererProps, props, nextId)
       IN  /\ value' = v
           /\ rendererProps' = rp
           /\ nextId' = IF v.id = nextId \/ rp.id = nextId
                        THEN nextId + 1 ELSE nextId
           /\ output' = RenderOutput(v, props.fallback)
    /\ viewProps' = ViewPropsRest(viewProps, props)
    /\ engineCanvasArg' = EngineCanvas(canvasRef)
    /\ rr' = res
    /\ rendered' = TRUE
    /\ pc' = "effects"
    /\ UNCHANGED <<mounted, props, res, pending, failed, failures,
                   released, nextGen, effectsRun, effDeps, current, committedEngine,
                   canvasRef,
                   propChanges, rerenders>>

\* React commits the output of the last call: the canvas ref is attached or
\* detached (line 142), and every effect whose dependency list changed is
\* cleaned up and run again (all of them on the first commit).
CommitEffects ==
    /\ mounted
    /\ pc = "effects"
    /\ canvasRef' = IF "canvas" \in output THEN Canvas ELSE NoCanvas
    /\ LET rerun == {r \in Dependents :
                        ~effectsRun \/ DepsOf(r, rr) # effDeps[r]}
           issue == {r \in rerun : InitKey(r, rr) # 0}
           res1  == [r \in Resources |-> IF r \in rerun THEN 0 ELSE res[r]]
       IN  /\ released' = CleanupAll(released, rerun, res)
           /\ res' = res1
           /\ pending' = [r \in Resources |->
                            IF r \in issue
                            THEN pending[r] \cup {InitKey(r, rr)}
                            ELSE pending[r]]
           /\ failed' = failed \ rerun
           /\ effDeps' = [r \in Dependents |-> DepsOf(r, rr)]
           /\ current' = [r \in Dependents |->
                            IF r \in rerun THEN InitKey(r, rr) ELSE current[r]]
           /\ pc' = IF res1 # rr THEN "render" ELSE "idle"
    /\ committedEngine' = rr["engine"]
    /\ effectsRun' = TRUE
    /\ viewProps' = Committed(viewProps)
    /\ UNCHANGED <<mounted, props, rr, failures, nextGen,
                   engineCanvasArg, rendered, value, rendererProps,
                   output, nextId, propChanges, rerenders>>

\* Acquisition k of dependent resource r resolves with a handle.
ResolveStep(r, k) ==
    /\ Between
    /\ k \in pending[r]
    /\ pending' = [pending EXCEPT ![r] = @ \ {k}]
    /\ res' = StoreResult(res, r, k)
    /\ released' = IF Valid(r, k) THEN released ELSE ReleaseLate(released, r, k)
    /\ pc' = IF res' # res THEN Schedule(pc) ELSE pc
    /\ UNCHANGED <<mounted, props, rr, failed, failures, nextGen,
                   effectsRun, effDeps, current, committedEngine,
                   canvasRef, engineCanvasArg, rendered,
                   value, rendererProps, viewProps, output, nextId,
                   propChanges, rerenders>>

\* The next result is delivered.
Resolve == \E r \in Dependents : \E k \in Gens : Due(r, k) /\ ResolveStep(r, k)

\* The results are delivered in any order, each one rendered before the
\* next arrives.
ResolveAnyOrder ==
    \E r \in Dependents : \E k \in Gens : pc # "render" /\ ResolveStep(r, k)

\* An acquisition of a dependent resource fails: it resolves without a
\* handle (or rejects); one that never resolves simply stays pending.
ResolveEmpty ==
    \E r \in Dependents : \E k \in pending[r] :
        /\ failures < MaxFailures
        /\ Between
        /\ Due(r, k)
        /\ Valid(r, k)
        /\ pending' = [pending EXCEPT ![r] = @ \ {k}]
        /\ failed' = failed \cup {r}
        /\ failures' = failures + 1
        /\ UNCHANGED <<mounted, pc, props, res, rr, released, nextGen,
                       effectsRun, effDeps, current, committedEngine,
                   canvasRef, engineCanvasArg, rendered,
                       value, rendererProps, viewProps, output, nextId,
                       propChanges, rerenders>>

\* useEngine (line 59): its acquisition resolves with a new engine.
EngineSettles ==
    /\ mounted
    /\ rendered
    /\ res["engine"] = 0
    /\ Between
    /\ nextGen <= MaxGen
    /\ res' = [res EXCEPT !["engine"] = nextGen]
    /\ nextGen' = nextGen + 1
    /\ pc' = Schedule(pc)
    /\ UNCHANGED <<mounted, props, rr, pending, failed, failures,
                   released, effectsRun, effDeps, current, committedEngine,
                   canvasRef, engineCanvasArg,
                   rendered, value, rendererProps, viewProps, output, nextId,
                   propChanges, rerenders>>

\* useEngine (line 59): the engine is torn down to be acquired again; its
\* handle is released and unset.
EngineReset ==
    /\ mounted
    /\ res["engine"] # 0
    /\ Between
    /\ nextGen <= MaxGen
    /\ res' = [res EXCEPT !["engine"] = 0]
    /\ released' = ReleaseOnCleanup(released, "engine", res)
    /\ pc' = Schedule(pc)
    /\ UNCHANGED <<mounted, props, rr, pending, failed, failures,
                   nextGen, effectsRun, effDeps, current, committedEngine,
                   canvasRef,
                   engineCanvasArg, rendered, value, rendererProps, viewProps,
                   output, nextId, propChanges, rerenders>>

\* The caller supplies another frameRateOptions value.
SetFrameRate ==
    \E f \in FrameRates :
        /\ mounted
        /\ Between
        /\ propChanges < MaxPropChanges
        /\ f # props.frameRateOptions
        /\ props' = [props EXCEPT !.frameRateOptions = f]
        /\ propChanges' = propChanges + 1
        /\ pc' = Schedule(pc)
        /\ UNCHANGED <<mounted, res, rr, pending, failed, failures,
                       released, nextGen, effectsRun, effDeps, current, committedEngine,
                   canvasRef,
                       engineCanvasArg, rendered, value, rendererProps, viewProps,
                       output, nextId, rerenders>>

\* The parent renders again with the same props.
Rerender ==
    /\ mounted
    /\ pc = "idle"
    /\ rerenders < MaxRerenders
    /\ rerenders' = rerenders + 1
    /\ pc' = "render"
    /\ UNCHANGED <<mounted, props, res, rr, pending, failed, failures,
                   released, nextGen, effectsRun, effDeps, current, committedEngine,
                   canvasRef,
                   engineCanvasArg, rendered, value, rendererProps, viewProps,
                   output, nextId, propChanges>>

\* The component unmounts: every effect is cleaned up, the engine is
\* released, and the instance with its tree, ref and memoized objects is
\* gone.  What stays is what lives outside the instance: the acquisitions in
\* flight and the handles.
Unmount ==
    /\ mounted
    /\ mounted' = FALSE
    /\ pc' = "unmounted"
    /\ released' = CleanupAll(released, Resources, res)
    /\ res' = AllUnset
    /\ rr' = AllUnset
    /\ canvasRef' = NoCanvas
    /\ engineCanvasArg' = NoCanvas
    /\ output' = {}
    /\ value' = Undefined
    /\ rendererProps' = [id |-> 0, frameRateOptions |-> InitialFrameRate]
    /\ viewProps' = [obj |-> 0, frameRateOptions |-> InitialFrameRate,
                     fallback |-> "none"]
    /\ props' = [frameRateOptions |-> InitialFrameRate, fallback |-> "none"]
    /\ effDeps' = [r \in Dependents |-> <<>>]
    /\ current' = [r \in Dependents |-> 0]
    /\ committedEngine' = 0
    /\ failed' = {}
    /\ failures' = 0
    /\ effectsRun' = FALSE
    /\ rendered' = FALSE
    /\ nextId' = 1
    /\ propChanges' = 0
    /\ rerenders' = 0
    /\ UNCHANGED <<pending, nextGen>>

\* The component under a caller that changes the frame-rate option and
\* renders again, and an engine hook that may tear its engine down and
\* acquire another; every acquisition that resolves gives a handle.
Next ==
    \/ Render
    \/ CommitEffects
    \/ Resolve
    \/ EngineSettles
    \/ EngineReset
    \/ SetFrameRate
    \/ Rerender
    \/ Unmount

Spec == Init /\ [][Next]_vars

\* The component with the results of the acquisitions delivered in any
\* order.
NextAnyOrder ==
    \/ Render
    \/ CommitEffects
    \/ ResolveAnyOrder
    \/ EngineSettles
    \/ Unmount

SpecAnyOrder == Init /\ [][NextAnyOrder]_vars

\* The component with acquisitions that may fail.
NextFailing ==
    \/ Render
    \/ CommitEffects
    \/ Resolve
    \/ ResolveEmpty
    \/ EngineSettles
    \/ EngineReset
    \/ Unmount

SpecFailing == Init /\ [][NextFailing]_vars

\* ---------------------------------------------------------------- claims

\* The output the function returns while the gate is closed.
ClosedOutput == IF props.fallback # "none" THEN {"fallback"} ELSE {}

\* A step that is a call of the function.
RenderStep == pc = "render" /\ pc' = "effects"

\* A step that commits a call and runs its effects.
CommitStep == pc = "effects" /\ pc' # "effects" /\ mounted'

\* C1: at every call of the mounted component, in whatever order the ten
\* handles settled, the context value is published if and only if all ten
\* handles the call read are set, a published value carries exactly those ten
\* handles, and once no call is outstanding the handles read are the current
\* ones.
C1_PublishedIffAllTen ==
    (mounted /\ rendered) =>
        /\ (value # Undefined) <=> (\A r \in Resources : rr[r] # 0)
        /\ value # Undefined => value.handles = rr
        /\ pc = "idle" => rr = res

\* C1 witness: the gate is open on all ten handles.
C1_Witness ==
    /\ mounted
    /\ pc = "idle"
    /\ value # Undefined
    /\ \A r \in Resources : value.handles[r] # 0

\* C2 as claimed: the canvas element is in the output of every call of the
\* mounted component.
C2_CanvasAlwaysRendered == (mounted /\ rendered) => "canvas" \in output

\* C3: while the gate is closed the output is exactly the fallback element if
\* one was supplied and nothing otherwise; no child, Configurator or provider
\* is rendered.
C3_ClosedGateOutput ==
    (mounted /\ rendered /\ (\E r \in Resources : rr[r] = 0)) =>
        /\ output = ClosedOutput
        /\ output \cap ProviderTree = {}

\* C3 witness: the fallback is shown while some handles are set and others
\* are not.
C3_Witness ==
    /\ mounted
    /\ rendered
    /\ rr["engine"] # 0
    /\ rr["transformManager"] # 0
    /\ rr["nameComponentManager"] = 0
    /\ output = {"fallback"}

\* C4 as claimed: useEngine is never handed an absent surface reference.
C4_EngineGetsSurface == (mounted /\ rendered) => engineCanvasArg = Canvas

\* C5 as claimed: when a call reads another engine than the committed one,
\* each of the nine dependent resources is acquired again.
C5_AllNineReacquired ==
    [][(CommitStep /\ committedEngine # 0 /\ rr["engine"] # 0
            /\ rr["engine"] # committedEngine)
        => \A r \in Dependents : pending'[r] # pending[r]]_vars

\* C5 amended: when a call reads another engine than the committed one, each
\* of the eight engine-created resources is acquired again from that engine
\* and the choreographer is not; a handle leaves the hook state only by being
\* unset and released, so before its replacement arrives; and the call that
\* reads all ten handles set publishes them in a context value of a new
\* identity.
C5_EightReacquired ==
    /\ [][(CommitStep /\ rr["engine"] # committedEngine) =>
            /\ \A r \in Derived :
                /\ current'[r] = rr["engine"]
                /\ rr["engine"] # 0 => rr["engine"] \in pending'[r] \ pending[r]
            /\ current'["choreographer"] = current["choreographer"]
            /\ pending'["choreographer"] = pending["choreographer"]]_vars
    /\ [][\A r \in Dependents :
            (res[r] # 0 /\ res'[r] # res[r]) =>
                (res'[r] = 0 /\ released'[r][res[r]] = 1)]_vars
    /\ [][(RenderStep /\ \A r \in Resources : res[r] # 0) =>
            /\ value'.handles = res
            /\ value.handles # res => (value'.id = nextId /\ nextId' > nextId)]_vars

\* C5 witness: the context holds the second engine and eight handles created
\* from it, the handles created from the first engine are released, and the
\* choreographer is the one acquired at mount.
C5_Witness ==
    /\ mounted
    /\ value # Undefined
    /\ value.handles["engine"] = 2
    /\ \A r \in Derived : value.handles[r] = 2 /\ released[r][1] = 1
    /\ value.handles["choreographer"] = ChoreographerKey
    /\ released["choreographer"][ChoreographerKey] = 0

\* C6: after an unmount no hook state changes; a result whose acquisition was
\* torn down is never stored, so a stored handle always belongs to the
\* acquisition its effect last issued; a handle is unreleased while stored,
\* released when it leaves the hook state, and never released twice.
C6_NoLateWriteReleasedOnce ==
    /\ [][~mounted => res' = res]_vars
    /\ [][\A r \in Dependents : \A k \in pending[r] :
            (k \notin pending'[r] /\ ~Valid(r, k)) => res' = res]_vars
    /\ [](\A r \in Dependents : res[r] # 0 => (mounted /\ current[r] = res[r]))
    /\ [](\A r \in Resources : \A k \in Gens :
            /\ released[r][k] <= 1
            /\ res[r] = k => released[r][k] = 0)
    /\ [][\A r \in Resources :
            (res[r] # 0 /\ res'[r] # res[r]) => released'[r][res[r]] = 1]_vars

\* C6 witness: the component is unmounted, a handle it had stored is
\* released, and an acquisition is still in flight.
C6_Witness ==
    /\ ~mounted
    /\ released["transformManager"][1] = 1
    /\ released["choreographer"][ChoreographerKey] = 1
    /\ pending["nameComponentManager"] # {}

\* C7: a call made after the frame-rate option changed, with the context
\* published and no handle changed, hands the Configurator the new value in
\* rendererProps and keeps the identity of the context value.
C7_FrameRateKeepsContext ==
    [][(RenderStep /\ value # Undefined /\ res = rr
            /\ rendererProps.frameRateOptions # props.frameRateOptions)
        => /\ value' = value
           /\ rendererProps'.frameRateOptions = props.frameRateOptions
           /\ rendererProps'.id # rendererProps.id
           /\ "Configurator" \in output']_vars

\* C7 witness: the published context value is older than the rendererProps
\* object, which carries a frame rate other than the initial one.
C7_Witness ==
    /\ mounted
    /\ value # Undefined
    /\ rendererProps.id > value.id
    /\ rendererProps.frameRateOptions # InitialFrameRate
    /\ rendererProps.frameRateOptions = props.frameRateOptions
    /\ "Configurator" \in output

C9_OptionsKeepIdentity ==
    [][(RenderStep /\ value # Undefined /\ value' # Undefined
            /\ viewProps.frameRateOptions = props.frameRateOptions
            /\ viewProps.fallback = props.fallback)
        => (rendererProps' = rendererProps /\ viewProps' = viewProps)]_vars

\* C10 as claimed: the eight engine-created handles of a published context
\* value were created from the engine of that value and are not released.
C10_SnapshotCoherent ==
    (mounted /\ value # Undefined) =>
        \A r \in Derived :
            /\ value.handles[r] = value.handles["engine"]
            /\ released[r][value.handles[r]] = 0

====
